---- MODULE Spec2Model ----
(***************************************************************************)
(* Model of the MinIO HTTP facade: the startup sequence of main() in its   *)
(* two variants (server/main.go retries the bucket check up to 10 times,   *)
(* the second main checks the bucket once), followed by the three request  *)
(* handlers uploadHandler, downloadHandler and listHandler.                *)
(*                                                                         *)
(* Strings the program inspects byte by byte (object keys, bodies) are     *)
(* sequences of one-character strings; settings are plain strings, since   *)
(* the program only compares them with "".                                 *)
(***************************************************************************)
EXTENDS Integers, Sequences, FiniteSets, TLC

VARIABLES
    variant,       \* which main() is running: "bounded" or "unbounded"
    env,           \* the process environment: the four settings
    run,           \* "first" launch of the process or "second"
    prev,          \* how the previous launch ended (history, for the two-run claims)
    pc,            \* position of main(): config, connect, bucket, listen, serving, fatal
    exitMsg,       \* which log.Fatal ended the process ("" while it lives)
    exitErr,       \* the error that log.Fatal printed (0: none)
    bucketName,    \* the global bucketName
    minioClient,   \* the global minioClient: "nil" or "client"
    i,             \* loop counter of the bounded bucket check
    newCalled,     \* minio.New has been called in this launch
    beCalls,       \* BucketExists calls of this launch
    beErrs,        \* BucketExists calls of this launch that returned an error
    sawExists,     \* BucketExists returned (true, nil) in this launch
    mbCalls,       \* MakeBucket calls of this launch
    confirmed,     \* BucketExists returned true or MakeBucket returned nil in this launch
    newFailsLeft,  \* minio.New fails this many more times (Forever: always)
    beFailsLeft,   \* BucketExists fails this many more times
    mbFailsLeft,   \* MakeBucket fails this many more times
    buckets,       \* backend: the buckets that exist
    objects,       \* backend: the objects of the bucket, key -> content
    lastUp,        \* history: per key, the last upload answered 200
    dl,            \* the download handler in flight between GetObject and io.Copy
    resp           \* the last completed HTTP exchange

vars == <<variant, env, run, prev, pc, exitMsg, exitErr, bucketName, minioClient, i,
          newCalled, beCalls, beErrs, sawExists, mbCalls, confirmed,
          newFailsLeft, beFailsLeft, mbFailsLeft, buckets, objects, lastUp, dl, resp>>

procVars == <<pc, exitMsg, exitErr, bucketName, minioClient, i,
              newCalled, beCalls, beErrs, sawExists, mbCalls, confirmed>>
faultVars == <<newFailsLeft, beFailsLeft, mbFailsLeft>>
httpVars == <<objects, lastUp, dl, resp>>

(***************************************************************************)
(* Bounds of the model and constants of the program.                       *)
(***************************************************************************)
MaxAttempts == 10
LastAttempt == 9
MaxNewFails == 2
MaxBEFails == 10
MaxMBFails == 1

Forever == 0 - 1
Variants == {"bounded", "unbounded"}
SettingValues == {"", "set"}
Envs == [endpoint : SettingValues, accessKey : SettingValues,
         secretKey : SettingValues, bucket : SettingValues]

NoPrev == [ready |-> FALSE, buckets |-> {}, mbCalls |-> 0]
EmptyBucket == [k \in {} |-> <<>>]
NoDownload == [active |-> FALSE]
BaseResp ==
    [kind |-> "none", query |-> <<>>, key |-> <<>>, status |-> 0, sent |-> "",
     body |-> <<>>, calls |-> 0, outcome |-> "none", err |-> "", stream |-> "none",
     expect |-> <<"-">>, latest |-> <<"-">>, had |-> FALSE, replaced |-> FALSE, yielded |-> <<>>, stored |-> {}]
NoResp == BaseResp

\* The backend fails its first N bucket checks; the values of N tried.
BEFailChoices == {0, LastAttempt, MaxAttempts, MaxBEFails}

(***************************************************************************)
(* The storage backend as the program sees it through the client library.  *)
(***************************************************************************)
\* minio.New: returns (client, nil) or (nil, err)
NewFails == newFailsLeft # 0
\* BucketExists: returns (found, nil) or (false, err)
BucketExistsFails == beFailsLeft # 0
BucketExistsResult(name) == name \in buckets
\* MakeBucket: returns nil, creating the bucket, or err
MakeBucketFails == mbFailsLeft # 0

Spend(n) == IF n = Forever \/ n = 0 THEN n ELSE n - 1

(***************************************************************************)
(* main()                                                                  *)
(***************************************************************************)
\* The zero value of the global in server/main.go; the package-level
\* initialiser os.Getenv("MINIO_BUCKET") in the other main.
InitialBucketName(v, e) == IF v = "bounded" THEN "" ELSE e.bucket

\* Mutant: the four tests joined by && instead of ||.
MissingSettingAll(endpoint, accessKey, secretKey, bucket) ==
    endpoint = "" /\ accessKey = "" /\ secretKey = "" /\ bucket = ""

MissingSetting(endpoint, accessKey, secretKey, bucket) ==
    endpoint = "" \/ accessKey = "" \/ secretKey = "" \/ bucket = ""

\* Reading the settings and the check for a missing one.
LoadConfig ==
    /\ pc = "config"
    /\ LET bn == IF variant = "bounded" THEN env.bucket ELSE bucketName
       IN /\ bucketName' = bn
          /\ IF MissingSetting(env.endpoint, env.accessKey, env.secretKey, bn)
             THEN pc' = "fatal" /\ exitMsg' = "config"
             ELSE pc' = "connect" /\ exitMsg' = exitMsg
    /\ UNCHANGED <<variant, env, run, prev, exitErr, minioClient, i, newCalled, beCalls,
                   beErrs, sawExists, mbCalls, confirmed, faultVars, buckets, httpVars>>

\* Mutant: a failed minio.New ends the process instead of being retried.
ConnectGivesUp ==
    /\ pc = "connect"
    /\ newCalled' = TRUE
    /\ newFailsLeft' = Spend(newFailsLeft)
    /\ IF NewFails
       THEN /\ minioClient' = "nil"
            /\ pc' = "fatal"
            /\ i' = i
       ELSE /\ minioClient' = "client"
            /\ pc' = "bucket"
            /\ i' = 0
    /\ UNCHANGED <<variant, env, run, prev, exitMsg, exitErr, bucketName, beCalls, beErrs,
                   sawExists, mbCalls, confirmed, beFailsLeft, mbFailsLeft, buckets,
                   httpVars>>

\* One iteration of the client construction loop.
Connect ==
    /\ pc = "connect"
    /\ newCalled' = TRUE
    /\ newFailsLeft' = Spend(newFailsLeft)
    /\ IF NewFails
       THEN /\ minioClient' = "nil"
            /\ pc' = "connect"
            /\ i' = i
       ELSE /\ minioClient' = "client"
            /\ pc' = "bucket"
            /\ i' = 0
    /\ UNCHANGED <<variant, env, run, prev, exitMsg, exitErr, bucketName, beCalls, beErrs,
                   sawExists, mbCalls, confirmed, beFailsLeft, mbFailsLeft, buckets,
                   httpVars>>

\* Mutant: the bucket is created without looking at the answer.
NeedsCreateAlways(exists) == TRUE

\* "if !exists": the bucket is created only when the check found none
NeedsCreate(exists) == ~exists

\* Mutant: a MakeBucket error is logged with log.Printf and startup goes on.
ProvisionKeepsGoing(exists) ==
    /\ sawExists' = (sawExists \/ exists)
    /\ IF NeedsCreate(exists)
       THEN /\ mbCalls' = mbCalls + 1
            /\ mbFailsLeft' = Spend(mbFailsLeft)
            /\ buckets' = IF MakeBucketFails THEN buckets ELSE buckets \cup {bucketName}
            /\ confirmed' = (confirmed \/ ~MakeBucketFails)
            /\ pc' = "listen"
            /\ UNCHANGED <<exitMsg, exitErr>>
       ELSE /\ confirmed' = TRUE
            /\ pc' = "listen"
            /\ UNCHANGED <<mbCalls, mbFailsLeft, buckets, exitMsg, exitErr>>

\* Mutant: a MakeBucket error sends startup back to the bucket check.
ProvisionRetries(exists) ==
    /\ sawExists' = (sawExists \/ exists)
    /\ IF NeedsCreate(exists)
       THEN /\ mbCalls' = mbCalls + 1
            /\ mbFailsLeft' = Spend(mbFailsLeft)
            /\ IF MakeBucketFails
               THEN /\ pc' = "bucket"
                    /\ UNCHANGED <<buckets, confirmed, exitMsg, exitErr>>
               ELSE /\ buckets' = buckets \cup {bucketName}
                    /\ confirmed' = TRUE
                    /\ pc' = "listen"
                    /\ UNCHANGED <<exitMsg, exitErr>>
       ELSE /\ confirmed' = TRUE
            /\ pc' = "listen"
            /\ UNCHANGED <<mbCalls, mbFailsLeft, buckets, exitMsg, exitErr>>

\* What follows a BucketExists that returned (exists, nil): create the bucket
\* when it is absent; a failure of MakeBucket is fatal.
Provision(exists) ==
    /\ sawExists' = (sawExists \/ exists)
    /\ IF NeedsCreate(exists)
       THEN /\ mbCalls' = mbCalls + 1
            /\ mbFailsLeft' = Spend(mbFailsLeft)
            /\ IF MakeBucketFails
               THEN /\ pc' = "fatal"
                    /\ exitMsg' = "MakeBucket error"
                    /\ UNCHANGED <<buckets, confirmed, exitErr>>
               ELSE /\ buckets' = buckets \cup {bucketName}
                    /\ confirmed' = TRUE
                    /\ pc' = "listen"
                    /\ UNCHANGED <<exitMsg, exitErr>>
       ELSE /\ confirmed' = TRUE
            /\ pc' = "listen"
            /\ UNCHANGED <<mbCalls, mbFailsLeft, buckets, exitMsg, exitErr>>

\* Mutant: log.Fatalf on every failed attempt, without the test of i.
LastTryAlways(n) == TRUE

\* Mutant: the test is "i == 10", which the loop condition never lets happen.
LastTryOffByOne(n) == n = MaxAttempts

\* "if i == 9": the failed attempt was the last one
LastTry(n) == n = LastAttempt

\* One iteration of "for i := 0; i < 10; i++" in server/main.go.
EnsureBucketBounded ==
    IF i < MaxAttempts
    THEN /\ beCalls' = beCalls + 1
         /\ beFailsLeft' = Spend(beFailsLeft)
         /\ IF ~BucketExistsFails
            THEN /\ Provision(BucketExistsResult(bucketName))
                 /\ UNCHANGED <<i, beErrs>>
            ELSE /\ beErrs' = beErrs + 1
                 /\ IF LastTry(i)
                    THEN /\ pc' = "fatal"
                         /\ exitMsg' = "Failed to connect to MinIO after 10 attempts"
                         /\ exitErr' = beCalls + 1
                         /\ i' = i
                    ELSE /\ i' = i + 1
                         /\ UNCHANGED <<pc, exitMsg, exitErr>>
                 /\ UNCHANGED <<sawExists, mbCalls, confirmed, mbFailsLeft, buckets>>
    ELSE /\ pc' = "listen"
         /\ UNCHANGED <<i, beCalls, beErrs, beFailsLeft, sawExists, mbCalls, confirmed,
                        mbFailsLeft, buckets, exitMsg, exitErr>>

\* Mutant: a failed BucketExists is tried again.
EnsureBucketOnceRetries ==
    /\ beCalls' = beCalls + 1
    /\ beFailsLeft' = Spend(beFailsLeft)
    /\ i' = i
    /\ IF BucketExistsFails
       THEN /\ beErrs' = beErrs + 1
            /\ pc' = "bucket"
            /\ UNCHANGED <<sawExists, mbCalls, confirmed, mbFailsLeft, buckets, exitMsg,
                           exitErr>>
       ELSE /\ Provision(BucketExistsResult(bucketName))
            /\ beErrs' = beErrs

\* The single bucket check of the other main.
EnsureBucketOnce ==
    /\ beCalls' = beCalls + 1
    /\ beFailsLeft' = Spend(beFailsLeft)
    /\ i' = i
    /\ IF BucketExistsFails
       THEN /\ beErrs' = beErrs + 1
            /\ pc' = "fatal"
            /\ exitMsg' = "BucketExists error"
            /\ exitErr' = beCalls + 1
            /\ UNCHANGED <<sawExists, mbCalls, confirmed, mbFailsLeft, buckets>>
       ELSE /\ Provision(BucketExistsResult(bucketName))
            /\ beErrs' = beErrs

EnsureBucket ==
    /\ pc = "bucket"
    /\ IF variant = "bounded" THEN EnsureBucketBounded ELSE EnsureBucketOnce
    /\ UNCHANGED <<variant, env, run, prev, bucketName, minioClient, newCalled,
                   newFailsLeft, httpVars>>

\* Registering the three routes and calling http.ListenAndServe.
Listen ==
    /\ pc = "listen"
    /\ pc' = "serving"
    /\ UNCHANGED <<variant, env, run, prev, exitMsg, exitErr, bucketName, minioClient, i,
                   newCalled, beCalls, beErrs, sawExists, mbCalls, confirmed, faultVars,
                   buckets, httpVars>>

\* http.ListenAndServe returns (it only ever returns an error): log.Fatal.
ListenFail ==
    /\ pc = "serving"
    /\ pc' = "fatal"
    /\ exitMsg' = "ListenAndServe"
    /\ dl' = NoDownload
    /\ UNCHANGED <<variant, env, run, prev, exitErr, bucketName, minioClient, i,
                   newCalled, beCalls, beErrs, sawExists, mbCalls, confirmed, faultVars,
                   buckets, objects, lastUp, resp>>

Ready == pc \in {"listen", "serving"} \/ (pc = "fatal" /\ exitMsg = "ListenAndServe")

\* The process is launched again (after it exited, or after it was stopped
\* while serving) against the same backend and environment.
Restart ==
    /\ pc \in {"fatal", "serving"}
    /\ run = "first"
    /\ run' = "second"
    /\ prev' = [ready |-> Ready, buckets |-> buckets, mbCalls |-> mbCalls]
    /\ pc' = "config"
    /\ exitMsg' = ""
    /\ exitErr' = 0
    /\ bucketName' = InitialBucketName(variant, env)
    /\ minioClient' = "nil"
    /\ i' = 0
    /\ newCalled' = FALSE
    /\ beCalls' = 0
    /\ beErrs' = 0
    /\ sawExists' = FALSE
    /\ mbCalls' = 0
    /\ confirmed' = FALSE
    /\ dl' = NoDownload
    /\ UNCHANGED <<variant, env, faultVars, buckets, objects, lastUp, resp>>

(***************************************************************************)
(* Requests: the query string is a list of name=value pairs after decoding *)
(* (so %0A in the URL is a newline in the value); the body is a byte       *)
(* sequence.                                                               *)
(***************************************************************************)
KeyA == <<"a">>
KeyBC == <<"b", "/", "c">>
KeyNL == <<"a", "\n", "b">>
Param(n, v) == [name |-> n, val |-> v]
Queries ==
    { <<>>,                                   \* no query string
      <<Param("key", <<>>)>>,                 \* ?key=
      <<Param("other", KeyA)>>,               \* ?other=a
      <<Param("key", KeyA)>>,
      <<Param("key", KeyBC)>>,
      <<Param("other", KeyBC), Param("key", KeyNL)>> }
Bodies == { <<>>, <<"x", "\n">> }
\* The uploads tried: every body under the key "a", one body under the rest.
UploadInputs ==
    { in \in [query : Queries, body : Bodies] :
        in.query = <<Param("key", KeyA)>> \/ in.body # <<>> }

Min(S) == CHOOSE x \in S : \A y \in S : x <= y

\* r.URL.Query().Get(name): the first value of the parameter, "" without one
QueryGet(q, name) ==
    LET at == {k \in 1..Len(q) : q[k].name = name}
    IN IF at = {} THEN <<>> ELSE q[Min(at)].val

(***************************************************************************)
(* http.ResponseWriter: the status is committed by the first WriteHeader   *)
(* or the first Write; later WriteHeader calls are ignored, and so are     *)
(* header changes made after the commit.                                   *)
(***************************************************************************)
NewResponse == [status |-> 0, header |-> "", sent |-> "", body |-> <<>>]

SetContentDisposition(w, v) == [w EXCEPT !.header = v]

WriteHeader(w, code) ==
    IF w.status = 0 THEN [w EXCEPT !.status = code, !.sent = w.header] ELSE w

Write(w, data) ==
    LET w1 == WriteHeader(w, 200) IN [w1 EXCEPT !.body = @ \o data]

\* fmt.Fprintln(w, s)
Fprintln(w, s) == Write(w, s \o <<"\n">>)

\* http.Error(w, msg, code)
HttpError(w, msg, code) == Fprintln(WriteHeader(w, code), msg)

\* What the server does when the handler returns without having written.
FinishResponse(w) == WriteHeader(w, 200)

MissingKeyMsg == <<"Missing 'key' query parameter">>

(***************************************************************************)
(* Object operations of the backend.                                       *)
(***************************************************************************)
\* Mutant: the body is appended to an object that is already there.
PutObjectAppends(store, key, body) ==
    [k \in (DOMAIN store) \cup {key} |->
        IF k # key THEN store[k]
        ELSE IF key \in DOMAIN store THEN store[key] \o body ELSE body]

\* PutObject that returned nil: the object is the whole body
PutObject(store, key, body) ==
    [k \in (DOMAIN store) \cup {key} |-> IF k = key THEN body ELSE store[k]]

FirstSlash(key) == {k \in 1..Len(key) : key[k] = "/"}
\* ListObjects: with Recursive the keys themselves, without it the top
\* level only (a key below a "/" shows as its prefix up to that "/").
ListObjectsKeys(store, recursive) ==
    IF recursive THEN DOMAIN store
    ELSE { IF FirstSlash(key) = {} THEN key ELSE SubSeq(key, 1, Min(FirstSlash(key)))
           : key \in DOMAIN store }

\* The orders in which a channel can yield the members of S.
Orders(S) ==
    { s \in [1..Cardinality(S) -> S] : \A a, b \in 1..Cardinality(S) : s[a] = s[b] => a = b }

(***************************************************************************)
(* The last completed exchange: request, response, and what the handler    *)
(* did for it.                                                             *)
(***************************************************************************)

Answer(kind, q, key, w) ==
    LET f == FinishResponse(w)
    IN [BaseResp EXCEPT !.kind = kind, !.query = q, !.key = key, !.status = f.status,
                        !.sent = f.sent, !.body = f.body]

\* Mutant: the handler does not test the key.
KeyMissingNever(objectName) == FALSE

\* The test objectName == "" of both handlers
KeyMissing(objectName) == objectName = <<>>

\* Mutant: the error of GetObject is dropped ("object, _ :=").
GetObjectFailedNever(err) == FALSE

\* "if err != nil" after GetObject
GetObjectFailed(err) == err # ""

\* History: the upload of body under key was answered 200.
Remember(hist, key, body) ==
    [k \in (DOMAIN hist) \cup {key} |->
        IF k = key
        THEN [content |-> body,
              replaced |-> key \in DOMAIN hist /\ hist[key].content # body]
        ELSE hist[k]]

\* History: the content last uploaded under key, <<"-">> when there is none.
LastUploaded(hist, key) == IF key \in DOMAIN hist THEN hist[key].content ELSE <<"-">>

(***************************************************************************)
(* uploadHandler                                                           *)
(***************************************************************************)
\* Mutant: the success message names the bucket instead of the object.
UploadOkNamesBucket(key) == <<"Uploaded ", bucketName, " successfully", "\n">>

UploadOk(key) == <<"Uploaded ">> \o key \o <<" successfully", "\n">>
UploadFailed(err) == <<"Upload failed: ", err>>

\* Mutant: a PutObject failure is reported with log.Fatalf.
uploadHandlerFatal(q, body) ==
    /\ pc = "serving"
    /\ LET objectName == QueryGet(q, "key")
       IN IF KeyMissing(objectName)
          THEN /\ resp' = Answer("upload", q, objectName,
                                 HttpError(NewResponse, MissingKeyMsg, 400))
               /\ UNCHANGED <<objects, lastUp, pc, exitMsg>>
          ELSE \E err \in {"", "put failed"} :
                 IF err # ""
                 THEN /\ resp' = [Answer("upload", q, objectName, NewResponse)
                                  EXCEPT !.calls = 1, !.outcome = "err", !.err = err]
                      /\ pc' = "fatal"
                      /\ exitMsg' = "Upload failed"
                      /\ UNCHANGED <<objects, lastUp>>
                 ELSE /\ objects' = PutObject(objects, objectName, body)
                      /\ resp' = [Answer("upload", q, objectName,
                                         Write(NewResponse, UploadOk(objectName)))
                                  EXCEPT !.calls = 1, !.outcome = "ok"]
                      /\ lastUp' = Remember(lastUp, objectName, body)
                      /\ UNCHANGED <<pc, exitMsg>>
    /\ UNCHANGED <<variant, env, run, prev, exitErr, bucketName, minioClient, i,
                   newCalled, beCalls, beErrs, sawExists, mbCalls, confirmed,
                   faultVars, buckets, dl>>

uploadHandler(q, body) ==
    /\ pc = "serving"
    /\ LET objectName == QueryGet(q, "key")
       IN IF KeyMissing(objectName)
          THEN /\ resp' = Answer("upload", q, objectName,
                                 HttpError(NewResponse, MissingKeyMsg, 400))
               /\ UNCHANGED <<objects, lastUp>>
          ELSE \E err \in {"", "put failed"} :
                 IF err # ""
                 THEN /\ resp' = [Answer("upload", q, objectName,
                                         HttpError(NewResponse, UploadFailed(err), 500))
                                  EXCEPT !.calls = 1, !.outcome = "err", !.err = err]
                      /\ UNCHANGED <<objects, lastUp>>
                 ELSE /\ objects' = PutObject(objects, objectName, body)
                      /\ resp' = [Answer("upload", q, objectName,
                                         Write(NewResponse, UploadOk(objectName)))
                                  EXCEPT !.calls = 1, !.outcome = "ok"]
                      /\ lastUp' = Remember(lastUp, objectName, body)
    /\ UNCHANGED <<variant, env, run, prev, procVars, faultVars, buckets, dl>>

(***************************************************************************)
(* downloadHandler, in two steps: up to the committed status, then the     *)
(* copy and the return.                                                    *)
(***************************************************************************)
DownloadFailed(err) == <<"Download failed: ", err>>

\* GetObject: the errors it can return for a key, "" for none. A missing
\* object is reported here, or only by the first read of the stream.
GetObjectErrors(store, key) ==
    IF key \in DOMAIN store THEN {"", "get failed"} ELSE {"", "NoSuchKey", "get failed"}

downloadBegin(q) ==
    /\ pc = "serving"
    /\ ~dl.active
    /\ LET objectName == QueryGet(q, "key")
       IN IF KeyMissing(objectName)
          THEN /\ resp' = Answer("download", q, objectName,
                                 HttpError(NewResponse, MissingKeyMsg, 400))
               /\ dl' = dl
          ELSE \E err \in GetObjectErrors(objects, objectName) :
                 IF GetObjectFailed(err)
                 THEN /\ resp' = [Answer("download", q, objectName,
                                         HttpError(NewResponse, DownloadFailed(err), 500))
                                  EXCEPT !.calls = 1, !.outcome = "err", !.err = err,
                                         !.had = objectName \in DOMAIN lastUp,
                                         !.expect = LastUploaded(lastUp, objectName),
                                         !.latest = LastUploaded(lastUp, objectName),
                                         !.replaced = objectName \in DOMAIN lastUp
                                                      /\ lastUp[objectName].replaced]
                      /\ dl' = dl
                 ELSE /\ dl' = [active |-> TRUE, query |-> q, key |-> objectName,
                                err |-> err,
                                found |-> objectName \in DOMAIN objects,
                                data |-> IF objectName \in DOMAIN objects
                                         THEN objects[objectName] ELSE <<>>,
                                had |-> objectName \in DOMAIN lastUp,
                                expect |-> LastUploaded(lastUp, objectName),
                                replaced |-> objectName \in DOMAIN lastUp
                                             /\ lastUp[objectName].replaced,
                                stream |-> "open",
                                w |-> WriteHeader(
                                        SetContentDisposition(NewResponse, "inline"), 200)]
                      /\ resp' = resp
    /\ UNCHANGED <<variant, env, run, prev, procVars, faultVars, buckets, objects, lastUp>>

\* How io.Copy can end after n bytes of a stream of the given data.
CopyEnds(found, data, n) ==
    {"read error"}
    \cup (IF found /\ n = Len(data) THEN {"eof"} ELSE {})
    \cup (IF n < Len(data) THEN {"client gone"} ELSE {})

\* Mutant: io.CopyN(w, object, 1), a copy that stops after the first byte.
IoCopyOneByte(w, data, n) == IF n = 0 THEN w ELSE Write(w, SubSeq(data, 1, 1))

\* io.Copy(w, object) that moved n bytes
IoCopy(w, data, n) == IF n = 0 THEN w ELSE Write(w, SubSeq(data, 1, n))

\* Mutant: the deferred Close is missing.
CloseStreamForgotten(stream) == stream

\* The deferred object.Close()
CloseStream(stream) == "closed"

\* Mutant: the result of io.Copy is checked and reported with http.Error.
AfterCopyReports(w, end) ==
    IF end = "eof" THEN w ELSE HttpError(w, DownloadFailed(end), 500)

\* The result of io.Copy is dropped: nothing more is written.
AfterCopy(w, end) == w

\* Mutant: the handler fetches the object in two requests, the first byte
\* when GetObject is called and the rest when the copy starts.
StreamSourcesTwoRequests(d, store) ==
    { [found |-> d.found /\ d.key \in DOMAIN store,
       data |-> IF d.found /\ d.key \in DOMAIN store
                THEN (IF d.data = <<>> THEN <<>> ELSE <<d.data[1]>>)
                     \o SubSeq(store[d.key], 2, Len(store[d.key]))
                ELSE <<>>] }

\* What the stream returned by GetObject delivers: the object as it was
\* when GetObject was called, or as it is when the first read asks for it
\* (the client library may defer the request to the first read).
StreamSources(d, store) ==
    { [found |-> d.found, data |-> d.data],
      [found |-> d.key \in DOMAIN store,
       data |-> IF d.key \in DOMAIN store THEN store[d.key] ELSE <<>>] }

downloadCopy ==
    /\ pc = "serving"
    /\ dl.active
    /\ \E src \in StreamSources(dl, objects) :
       \E n \in 0..Len(src.data) : \E end \in CopyEnds(src.found, src.data, n) :
         resp' = [Answer("download", dl.query, dl.key,
                         AfterCopy(IoCopy(dl.w, src.data, n), end))
                  EXCEPT !.calls = 1, !.outcome = end, !.stream = CloseStream(dl.stream),
                         !.err = dl.err,
                         !.had = dl.had, !.expect = dl.expect,
                         !.latest = LastUploaded(lastUp, dl.key),
                         !.replaced = dl.replaced]
    /\ dl' = NoDownload
    /\ UNCHANGED <<variant, env, run, prev, procVars, faultVars, buckets, objects, lastUp>>

(***************************************************************************)
(* listHandler                                                             *)
(***************************************************************************)
RECURSIVE WriteKeys(_, _, _)
\* the loop body "fmt.Fprintln(w, obj.Key)" for the first n entries
WriteKeys(w, entries, n) ==
    IF n = 0 THEN w ELSE Fprintln(WriteKeys(w, entries, n - 1), entries[n])

\* Mutant: the listing is not recursive.
ListRecursiveOff == FALSE

\* minio.ListObjectsOptions{Recursive: true}
ListRecursive == TRUE

\* Mutant: after an enumeration error the handler drops the shared client.
listHandlerResetsClient ==
    /\ pc = "serving"
    /\ \E entries \in Orders(ListObjectsKeys(objects, ListRecursive)) :
       \E n \in 0..Len(entries) : \E err \in {"", "list failed"} :
         /\ err = "" => n = Len(entries)
         /\ minioClient' = IF err = "" THEN minioClient ELSE "nil"
         /\ LET w == WriteKeys(NewResponse, entries, n)
            IN resp' = [Answer("list", <<>>, <<>>,
                               IF err = "" THEN w ELSE HttpError(w, <<err>>, 500))
                        EXCEPT !.calls = 1, !.outcome = IF err = "" THEN "ok" ELSE "err",
                               !.err = err, !.yielded = SubSeq(entries, 1, n),
                               !.stored = DOMAIN lastUp]
    /\ UNCHANGED <<variant, env, run, prev, pc, exitMsg, exitErr, bucketName, i,
                   newCalled, beCalls, beErrs, sawExists, mbCalls, confirmed,
                   faultVars, buckets, objects, lastUp, dl>>

listHandler ==
    /\ pc = "serving"
    /\ \E entries \in Orders(ListObjectsKeys(objects, ListRecursive)) :
       \E n \in 0..Len(entries) : \E err \in {"", "list failed"} :
         /\ err = "" => n = Len(entries)
         /\ LET w == WriteKeys(NewResponse, entries, n)
            IN resp' = [Answer("list", <<>>, <<>>,
                               IF err = "" THEN w ELSE HttpError(w, <<err>>, 500))
                        EXCEPT !.calls = 1, !.outcome = IF err = "" THEN "ok" ELSE "err",
                               !.err = err, !.yielded = SubSeq(entries, 1, n),
                               !.stored = DOMAIN lastUp]
    /\ UNCHANGED <<variant, env, run, prev, procVars, faultVars, buckets, objects, lastUp,
                   dl>>

Init ==
    /\ variant \in Variants
    /\ env \in Envs
    /\ run = "first"
    /\ prev = NoPrev
    /\ pc = "config"
    /\ exitMsg = ""
    /\ exitErr = 0
    /\ bucketName = InitialBucketName(variant, env)
    /\ minioClient = "nil"
    /\ i = 0
    /\ newCalled = FALSE
    /\ beCalls = 0
    /\ beErrs = 0
    /\ sawExists = FALSE
    /\ mbCalls = 0
    /\ confirmed = FALSE
    /\ newFailsLeft \in (0..MaxNewFails) \cup {Forever}
    /\ beFailsLeft \in BEFailChoices
    /\ buckets \in {{}, {"set"}}
    \* MakeBucket is only ever called for a bucket that is absent
    /\ mbFailsLeft \in IF buckets = {} THEN 0..MaxMBFails ELSE {0}
    /\ objects = EmptyBucket
    /\ lastUp = EmptyBucket
    /\ dl = NoDownload
    /\ resp = NoResp

Next ==
    \/ LoadConfig
    \/ Connect
    \/ EnsureBucket
    \/ Listen
    \/ ListenFail
    \/ Restart
    \/ \E in \in UploadInputs : uploadHandler(in.query, in.body)
    \/ \E q \in Queries : downloadBegin(q)
    \/ downloadCopy
    \/ listHandler

Spec == Init /\ [][Next]_vars

\* The main goroutine keeps running: a step of main() that can be taken is
\* taken (the sleeps between attempts end).
Startup == LoadConfig \/ Connect \/ EnsureBucket \/ Listen
LiveSpec == Init /\ [][Next]_vars /\ WF_vars(Startup)

(***************************************************************************)
(* Properties                                                              *)
(***************************************************************************)
AllSettingsPresent == \A f \in DOMAIN env : env[f] # ""

\* C1: whenever the listener is started or a handler is running, the client
\* is non-nil and the bucket was confirmed (BucketExists returned true or
\* MakeBucket returned nil) and exists; handlers run, and answer, only while
\* the listener is started, never during initialization.
C1_ServingOnlyAfterInit ==
    /\ [](dl.active => pc = "serving")
    /\ [](pc = "serving" =>
            minioClient = "client" /\ confirmed /\ bucketName \in buckets)
    /\ [][(resp' # resp \/ (dl' # dl /\ dl'.active)) =>
            pc = "serving" /\ minioClient = "client" /\ confirmed]_vars

C1_Witness ==
    /\ pc = "serving" /\ dl.active /\ resp.kind = "upload" /\ resp.status = 200
    /\ variant = "bounded" /\ beErrs = 9 /\ mbCalls = 1

\* The query has no "key" parameter with a non-empty value.
KeyAbsentOrEmpty(q) == ~\E k \in 1..Len(q) : q[k].name = "key" /\ q[k].val # <<>>

\* C2: an /upload or /download whose key is absent or empty is answered 400,
\* makes no backend call and leaves the bucket contents as they were.
C2_MissingKeyRejected ==
    /\ [](resp.kind \in {"upload", "download"} /\ KeyAbsentOrEmpty(resp.query) =>
            resp.status = 400 /\ resp.calls = 0)
    /\ [][(resp' # resp /\ resp'.kind \in {"upload", "download"}
           /\ KeyAbsentOrEmpty(resp'.query)) =>
            objects' = objects /\ dl' = dl]_vars

C2_Witness ==
    /\ resp.kind = "upload" /\ resp.query = <<Param("other", KeyA)>>
    /\ resp.status = 400 /\ resp.calls = 0
    /\ KeyA \in DOMAIN objects

C3_WitnessEmpty ==
    /\ resp.kind = "download" /\ resp.had /\ resp.outcome = "eof"
    /\ resp.key = KeyA /\ resp.body = <<>> /\ resp.expect = <<>>

RECURSIVE Lines(_)
\* The lines of a text, each ended by a newline.
Lines(s) ==
    LET nl == {k \in 1..Len(s) : s[k] = "\n"}
    IN IF s = <<>> THEN <<>>
       ELSE IF nl = {} THEN <<s>>
       ELSE <<SubSeq(s, 1, Min(nl) - 1)>> \o Lines(SubSeq(s, Min(nl) + 1, Len(s)))

ListsExactly(body, keys, order) ==
    LET L == Lines(body)
    IN /\ \A k \in keys : Cardinality({j \in 1..Len(L) : L[j] = k}) = 1
       /\ \A j \in 1..Len(L) : L[j] \in keys
       /\ L = order

\* C5 as stated: a /list whose enumeration yields no error has every uploaded
\* key exactly once, each on a line of its own, in the order the backend
\* yielded them, and no line that is not an uploaded key.
C5_AsStated ==
    resp.kind = "list" /\ resp.outcome = "ok" =>
        ListsExactly(resp.body, resp.stored, resp.yielded)

NoNewline(key) == \A k \in 1..Len(key) : key[k] # "\n"

\* C5: the same, when no uploaded key contains a newline.
C5_ListComplete ==
    resp.kind = "list" /\ resp.outcome = "ok" /\ (\A k \in resp.stored : NoNewline(k)) =>
        /\ resp.status = 200
        /\ ListsExactly(resp.body, resp.stored, resp.yielded)

C5_Witness ==
    /\ resp.kind = "list" /\ resp.outcome = "ok"
    /\ resp.stored = {KeyA, KeyBC}
    /\ Lines(resp.body) = <<KeyBC, KeyA>>

TolerableFaults ==
    /\ newFailsLeft # Forever
    /\ variant = "bounded" => beFailsLeft < 10
    /\ variant = "unbounded" => beFailsLeft = 0
    /\ mbFailsLeft = 0

\* C7: a launch with all four settings present and tolerable startup faults
\* eventually starts the listener.
C7_EventuallyServes ==
    (pc = "config" /\ AllSettingsPresent /\ TolerableFaults) ~> (pc = "serving")

C7_Witness ==
    /\ pc = "serving" /\ run = "first" /\ variant = "bounded"
    /\ beErrs = 9 /\ beCalls = 10 /\ mbCalls = 1

AllChecksFailed == beCalls > 0 /\ beErrs = beCalls

\* C8: in the bounded variant BucketExists is called at most 10 times in a
\* launch; while every call so far has failed MakeBucket is not called and
\* the listener is not started; after the tenth failure the process has
\* exited fatally with that failure, and it exits this way only then.
C8_BoundedRetry ==
    variant = "bounded" =>
        /\ beCalls <= 10
        /\ AllChecksFailed => mbCalls = 0 /\ pc \in {"bucket", "fatal"} /\ ~dl.active
        /\ AllChecksFailed /\ beCalls = 10 =>
              /\ pc = "fatal"
              /\ exitMsg = "Failed to connect to MinIO after 10 attempts"
              /\ exitErr = 10
        /\ AllChecksFailed /\ pc = "fatal" => beCalls = 10

C8_Witness ==
    /\ variant = "bounded" /\ pc = "fatal" /\ beErrs = 10 /\ beCalls = 10
    /\ mbCalls = 0 /\ exitErr = 10

\* A launch that reached http.ListenAndServe without a fatal error.
InitSucceeded == pc \in {"listen", "serving"} \/ (pc = "fatal" /\ exitMsg = "ListenAndServe")

ExistingBucketUntouched == sawExists => mbCalls = 0 /\ InitSucceeded

\* C9 as stated: a launch whose BucketExists reports the bucket never calls
\* MakeBucket and goes on to serve; after a second launch has initialized,
\* the buckets are those left by the first launch and MakeBucket was called
\* at most once over both.
C9_AsStated ==
    /\ ExistingBucketUntouched
    /\ run = "second" /\ InitSucceeded =>
          buckets = prev.buckets /\ prev.mbCalls + mbCalls <= 1

\* C9: the same, the two-launch part for a first launch that completed its
\* initialization.
C9_Idempotent ==
    /\ ExistingBucketUntouched
    /\ run = "second" /\ prev.ready =>
          buckets = prev.buckets /\ prev.mbCalls + mbCalls <= 1

C9_Witness ==
    /\ run = "second" /\ prev.ready /\ prev.mbCalls = 1
    /\ sawExists /\ mbCalls = 0 /\ pc = "serving"

\* C10: with one of the four settings empty the process exits fatally at the
\* check of the settings: no client construction, no backend call, no
\* listener, no handler.
C10_MissingSettingFatal ==
    ~AllSettingsPresent =>
        /\ pc \in {"config", "fatal"}
        /\ pc = "fatal" => exitMsg = "config"
        /\ ~newCalled /\ beCalls = 0 /\ mbCalls = 0 /\ minioClient = "nil"
        /\ ~dl.active

C10_Witness ==
    /\ pc = "fatal" /\ exitMsg = "config" /\ variant = "unbounded"
    /\ env.endpoint # "" /\ env.accessKey # "" /\ env.secretKey # "" /\ env.bucket = ""

RECURSIVE KeyLines(_)
\* The lines that the listing writes for a sequence of keys.
KeyLines(entries) ==
    IF entries = <<>> THEN <<>>
    ELSE Head(entries) \o <<"\n">> \o KeyLines(Tail(entries))

\* C11 as stated: a listing whose enumeration fails after k keys is answered
\* with status 500, and its body is the k lines already written followed by
\* the error detail and nothing else.
C11_AsStated ==
    resp.kind = "list" /\ resp.outcome = "err" =>
        /\ resp.status = 500
        /\ resp.body = KeyLines(resp.yielded) \o <<resp.err, "\n">>

\* The ways the copy of a download can end
CopyOutcomes == {"eof", "read error", "client gone"}

\* C12: a download that obtained a stream from GetObject has closed it when
\* the handler has returned, whichever way the copy ended; a completed
\* exchange never holds an open stream.
C12_StreamClosed ==
    /\ resp.stream # "open"
    /\ resp.kind = "download" /\ resp.outcome \in CopyOutcomes =>
          resp.stream = "closed"

C12_Witness ==
    /\ resp.kind = "download" /\ resp.outcome = "client gone"
    /\ resp.stream = "closed" /\ resp.key = KeyBC /\ resp.body = <<"x">>

\* The value of the parameter "key" of a query that carries one
KeyOf(q) == q[Min({k \in DOMAIN q : q[k].name = "key"})].val

\* C13: an upload with a non-empty key calls PutObject exactly once; when
\* the call fails the answer is 500 with the error of the call, when it
\* succeeds the answer is 200 with "Uploaded {key} successfully" for the
\* key of the request.
C13_UploadOnce ==
    resp.kind = "upload" /\ ~KeyAbsentOrEmpty(resp.query) =>
        /\ resp.calls = 1
        /\ resp.outcome \in {"ok", "err"}
        /\ resp.outcome = "err" =>
              /\ resp.status = 500
              /\ resp.err # ""
              /\ resp.body = <<"Upload failed: ", resp.err, "\n">>
        /\ resp.outcome = "ok" =>
              /\ resp.status = 200
              /\ resp.body = <<"Uploaded ">> \o KeyOf(resp.query)
                                \o <<" successfully", "\n">>

C13_Witness ==
    /\ resp.kind = "upload" /\ resp.outcome = "ok" /\ resp.status = 200
    /\ resp.key = KeyBC /\ resp.calls = 1

\* A step of one of the three handlers
HandlerStep ==
    \/ \E in \in UploadInputs : uploadHandler(in.query, in.body)
    \/ \E q \in Queries : downloadBegin(q)
    \/ downloadCopy
    \/ listHandler

\* C14: a step of a handler, whatever its outcome, leaves the process
\* serving, and the exchange it completes has a response status.
C14_RequestsNeverFatal ==
    [][\/ /\ pc' = "serving" /\ exitMsg' = ""
          /\ resp' # resp => resp'.status \in {200, 400, 500}
          /\ dl'.active => dl'.w.status = 200
       \/ ~HandlerStep]_vars

C14_Witness ==
    /\ pc = "serving" /\ resp.kind = "upload" /\ resp.outcome = "err"
    /\ resp.status = 500 /\ dl.active

\* C15: in a launch, MakeBucket is called at most once, and exactly once
\* when a bucket check succeeded and reported the bucket absent; when that
\* call fails the process is dead with the MakeBucket error after its one
\* successful check, whatever attempts remain, and is not listening.
C15_MakeBucketOnce ==
    /\ mbCalls <= 1
    /\ beCalls > beErrs /\ ~sawExists => mbCalls = 1
    /\ mbCalls = 1 => beCalls = beErrs + 1 /\ ~sawExists
    /\ mbCalls = 1 /\ ~confirmed =>
          /\ pc = "fatal" /\ exitMsg = "MakeBucket error"
          /\ ~dl.active

C15_Witness ==
    /\ variant = "bounded" /\ pc = "fatal" /\ exitMsg = "MakeBucket error"
    /\ mbCalls = 1 /\ beCalls = 1 /\ i < LastAttempt
    /\ bucketName \notin buckets

\* C16: in the variant with the single check, BucketExists is called at most
\* once in a launch and exactly once in a launch that got past the check;
\* when the call fails the process is dead with the BucketExists error, has
\* not called MakeBucket and is not listening.
C16_SingleCheck ==
    variant = "unbounded" =>
        /\ beCalls <= 1
        /\ pc \in {"listen", "serving"} => beCalls = 1
        /\ beErrs > 0 =>
              /\ pc = "fatal" /\ exitMsg = "BucketExists error"
              /\ mbCalls = 0 /\ ~confirmed /\ ~dl.active

C16_Witness ==
    /\ variant = "unbounded" /\ pc = "fatal" /\ exitMsg = "BucketExists error"
    /\ beCalls = 1 /\ beErrs = 1 /\ mbCalls = 0 /\ minioClient = "client"

\* C17: when minio.New fails on every attempt the process never has a
\* client, never checks the bucket, never exits from the loop and never
\* listens: once in the loop, every step leaves it there.
C17_ConnectLoopUnbounded ==
    /\ [](newFailsLeft = Forever =>
             /\ pc \in {"config", "connect", "fatal"}
             /\ pc = "fatal" => exitMsg = "config" /\ ~newCalled
             /\ minioClient = "nil" /\ beCalls = 0 /\ mbCalls = 0 /\ ~dl.active)
    /\ [][newFailsLeft = Forever /\ pc = "connect" =>
             pc' = "connect" /\ newFailsLeft' = Forever]_vars

C17_Witness ==
    /\ newFailsLeft = Forever /\ pc = "connect" /\ newCalled
    /\ minioClient = "nil" /\ variant = "bounded"

\* C18: while the process is serving, no step of that process changes
\* minioClient or bucketName.
C18_GlobalsFrozen ==
    [][pc = "serving" /\ run' = run =>
         minioClient' = minioClient /\ bucketName' = bucketName]_vars

C18_Witness ==
    /\ pc = "serving" /\ dl.active /\ dl.key = KeyA
    /\ resp.kind = "list" /\ resp.outcome = "err"
    /\ minioClient = "client" /\ bucketName = "set"

IsPrefix(p, s) == Len(p) <= Len(s) /\ p = SubSeq(s, 1, Len(p))

\* C19: a download that got a stream, with or without an upload to its key
\* between its start and its end, delivers bytes of one content only: the
\* one last uploaded before it started or the one last uploaded before it
\* ended; a copy that reached the end of the stream delivers that content
\* whole.
C19_OldOrNew ==
    resp.kind = "download" /\ resp.outcome \in CopyOutcomes =>
        /\ IsPrefix(resp.body, resp.expect) \/ IsPrefix(resp.body, resp.latest)
        /\ resp.outcome = "eof" =>
              resp.body # <<"-">> /\ resp.body \in {resp.expect, resp.latest}

C19_Witness ==
    /\ resp.kind = "download" /\ resp.outcome = "eof" /\ resp.key = KeyA
    /\ resp.expect = <<>> /\ resp.latest = <<"x", "\n">>
    /\ resp.body = resp.latest

\* C20: a download whose GetObject returned no error has committed status
\* 200 and Content-Disposition: inline before any byte of the body, and
\* however its copy ends the answer stays 200 with bytes of the object only,
\* all of them or a part, and no error message.
C20_CommittedBeforeCopy ==
    /\ dl.active =>
          dl.err = "" /\ dl.w.status = 200 /\ dl.w.sent = "inline" /\ dl.w.body = <<>>
    /\ resp.kind = "download" /\ resp.outcome \in CopyOutcomes =>
          /\ resp.err = "" /\ resp.status = 200 /\ resp.sent = "inline"
          /\ \A k \in DOMAIN resp.body : resp.body[k] # "Download failed: "
          /\ IsPrefix(resp.body, resp.expect) \/ IsPrefix(resp.body, resp.latest)

C20_Witness ==
    /\ resp.kind = "download" /\ resp.outcome = "read error"
    /\ resp.status = 200 /\ resp.sent = "inline"
    /\ resp.expect = <<"x", "\n">> /\ resp.body = <<"x">>
====
